---------------------------- MODULE Spec2Model ----------------------------
(***************************************************************************)
(* Model of lnicola/thinning: the tiled Zhang-Suen thinning engine of      *)
(* src/src/main.rs and the divide-and-conquer skeleton tracer of           *)
(* src/src/skeleton.rs.                                                    *)
(*                                                                         *)
(* An image is a function from the row-major index i * w + j (0-based, as  *)
(* in the source) to a byte.  Bit 0 of a byte is the foreground, bit 1 the *)
(* removal marker.                                                         *)
(***************************************************************************)
EXTENDS Integers, Sequences, FiniteSets, TLC

VARIABLES
    im,           \* the image buffer
    width,        \* image width
    height,       \* image height
    tile_width,   \* tile width
    tile_height,  \* tile height
    tile_flags,   \* thinning_zs_tiled: one flag per tile
    pc,           \* position in the running function
    ti,           \* thinning_zs_tiled: index ti_y * ntx + ti_x of the tile the loop is at
    diff,         \* thinning_zs_tiled: the local diff
    im_in,        \* the buffer as it was handed to the first call
    call,         \* number of the running call of thinning_zs_tiled
    im_first,     \* the buffer as the first call left it
    win,          \* window or region <<x, y, w, h>> of a direct call
    chunk_size,   \* trace_skeleton: chunk_size
    max_iter,     \* trace_skeleton: max_iter
    frags,        \* trace_skeleton: the returned fragment list
    mc0,          \* merge_frags: the fragment list c0
    mc1,          \* merge_frags: the fragment list c1
    seam,         \* merge_frags: the arguments [sx, dr]
    mi,           \* merge_frags: the loop's index i + 1 (0: the loop is over)
    merged,       \* merge_frags: number of calls of merge_impl that returned true
    mc_in,        \* merge_frags: the lists [c0, c1] as they were handed to the call
    calls         \* trace_skeleton: the pending calls, innermost first

vars == <<im, width, height, tile_width, tile_height, tile_flags, pc, ti, diff,
          im_in, call, im_first, win, chunk_size, max_iter, frags,
          mc0, mc1, seam, mi, merged, mc_in, calls>>

tracerVars == <<mc0, mc1, seam, mi, merged, mc_in, calls>>

\* no call of merge_frags and no unfolded call of trace_skeleton is under way
NoMerge ==
    /\ mc0 = <<>>
    /\ mc1 = <<>>
    /\ seam = <<>>
    /\ mi = 0
    /\ merged = 0
    /\ mc_in = <<>>
    /\ calls = <<>>

(***************************************************************************)
(* Bounds of the model.                                                    *)
(***************************************************************************)
MaxW == 5
MaxH == 4
MaxPixels == 16
MaxTile == 3
MaxFg == 6
TraceW == 7
TraceH == 3
TraceMaxFg == 2
MaxChunk == 4
PostW == 2
PostH == 2
MaxFrags == 3
MaxSeam == 3
SplitW == 8
SplitH == 8
SplitMaxFg == 2

-----------------------------------------------------------------------------
(***************************************************************************)
(* u8 bit operations, written with the arithmetic they amount to.          *)
(***************************************************************************)
\* byte & 1
Bit0(byte) == byte % 2

\* byte >> 1
Shr1(byte) == byte \div 2

\* byte & 2 != 0
HasBit1(byte) == (byte \div 2) % 2 = 1

\* byte | 2
SetBit1(byte) == IF HasBit1(byte) THEN byte ELSE byte + 2

\* !byte on u8
Not8(byte) == 255 - byte

\* bit & mask where bit is 0 or 1: bit 0 of the mask decides
AndBit(bit, mask) == IF bit = 1 /\ mask % 2 = 1 THEN 1 ELSE 0

Min(a, b) == IF a < b THEN a ELSE b

-----------------------------------------------------------------------------
(***************************************************************************)
(* thinning_zs_iteration: one Zhang-Suen sub-iteration over a window.      *)
(***************************************************************************)

\* the loop ranges min_y..max_y and min_x..max_x (upper ends exclusive)
IterRows(win_y, win_h, h) ==
    LET min_y == IF win_y = 0 THEN 1 ELSE win_y
        max_y == IF win_y + win_h = h THEN h - 1 ELSE win_y + win_h
    IN  min_y .. (max_y - 1)

IterCols(win_x, win_w, w) ==
    LET min_x == IF win_x = 0 THEN 1 ELSE win_x
        max_x == IF win_x + win_w = w THEN w - 1 ELSE win_x + win_w
    IN  min_x .. (max_x - 1)

\* the number a of 0 -> 1 transitions in p2, p3, ..., p9, p2
Transitions(p2, p3, p4, p5, p6, p7, p8, p9) ==
      (IF p2 = 0 /\ p3 = 1 THEN 1 ELSE 0)
    + (IF p3 = 0 /\ p4 = 1 THEN 1 ELSE 0)
    + (IF p4 = 0 /\ p5 = 1 THEN 1 ELSE 0)
    + (IF p5 = 0 /\ p6 = 1 THEN 1 ELSE 0)
    + (IF p6 = 0 /\ p7 = 1 THEN 1 ELSE 0)
    + (IF p7 = 0 /\ p8 = 1 THEN 1 ELSE 0)
    + (IF p8 = 0 /\ p9 = 1 THEN 1 ELSE 0)
    + (IF p9 = 0 /\ p2 = 1 THEN 1 ELSE 0)

\* a mutation of ZsTest: the test a == 1 is dropped
ZsTestNoA(p2, p3, p4, p5, p6, p7, p8, p9, iter) ==
    LET b  == p2 + p3 + p4 + p5 + p6 + p7 + p8 + p9
        m1 == IF iter = 0 THEN p2 * p4 * p6 ELSE p2 * p4 * p8
        m2 == IF iter = 0 THEN p4 * p6 * p8 ELSE p2 * p6 * p8
    IN  (b >= 2 /\ b <= 6) /\ m1 = 0 /\ m2 = 0

\* the test of line 75 on the eight neighbours:
\* a == 1 && (b >= 2 && b <= 6) && m1 == 0 && m2 == 0
ZsTest(p2, p3, p4, p5, p6, p7, p8, p9, iter) ==
    LET a  == Transitions(p2, p3, p4, p5, p6, p7, p8, p9)
        b  == p2 + p3 + p4 + p5 + p6 + p7 + p8 + p9
        m1 == IF iter = 0 THEN p2 * p4 * p6 ELSE p2 * p4 * p8
        m2 == IF iter = 0 THEN p4 * p6 * p8 ELSE p2 * p6 * p8
    IN  a = 1 /\ (b >= 2 /\ b <= 6) /\ m1 = 0 /\ m2 = 0

\* the test at pixel (i, j), on the foreground bits of its neighbours p2..p9
\* (lines 47-75; p1 is computed by the source and is not part of the test)
ZsCondition(img, i, j, w, iter) ==
    ZsTest(Bit0(img[(i - 1) * w + j]),
           Bit0(img[(i - 1) * w + j + 1]),
           Bit0(img[i * w + j + 1]),
           Bit0(img[(i + 1) * w + j + 1]),
           Bit0(img[(i + 1) * w + j]),
           Bit0(img[(i + 1) * w + j - 1]),
           Bit0(img[i * w + j - 1]),
           Bit0(img[(i - 1) * w + j - 1]),
           iter)

\* a mutation of NewlyMarked: the test of line 77 (the marker is clear) is
\* dropped, so a pixel that is already marked reports a change again
NewlyMarkedAgain(img, win_x, win_y, win_w, win_h, w, h, iter) ==
    { k \in DOMAIN img :
        /\ (k \div w) \in IterRows(win_y, win_h, h)
        /\ (k % w) \in IterCols(win_x, win_w, w)
        /\ ZsCondition(img, k \div w, k % w, w, iter) }

\* the pixels of the window whose marker the call sets: the test holds and the
\* marker is clear.  The loop reads only bit 0 and writes only bit 1 of the
\* pixel it is at, so the pixels are decided independently of the loop order.
NewlyMarked(img, win_x, win_y, win_w, win_h, w, h, iter) ==
    { k \in DOMAIN img :
        /\ (k \div w) \in IterRows(win_y, win_h, h)
        /\ (k % w) \in IterCols(win_x, win_w, w)
        /\ ZsCondition(img, k \div w, k % w, w, iter)
        /\ ~HasBit1(img[k]) }

\* the call's effect: the buffer it leaves and the bool it returns
thinning_zs_iteration(img, win_x, win_y, win_w, win_h, w, h, iter) ==
    LET marked == NewlyMarked(img, win_x, win_y, win_w, win_h, w, h, iter)
    IN  [ im   |-> [k \in DOMAIN img |-> IF k \in marked THEN SetBit1(img[k]) ELSE img[k]],
          diff |-> marked # {} ]

(***************************************************************************)
(* thinning_zs_post: the commit over a window.                             *)
(***************************************************************************)
\* lines 98-103 on one byte: the byte is written only when new != old
PostByte(byte) ==
    LET marker == Shr1(byte)
        old    == Bit0(byte)
        new    == AndBit(old, Not8(marker))
    IN  IF new # old THEN new ELSE byte

thinning_zs_post(img, win_x, win_y, win_w, win_h, w) ==
    [k \in DOMAIN img |->
        IF /\ (k \div w) \in win_y .. (win_y + win_h - 1)
           /\ (k % w) \in win_x .. (win_x + win_w - 1)
        THEN PostByte(img[k])
        ELSE img[k]]

(***************************************************************************)
(* thinning_zs: the non-tiled reference.                                   *)
(***************************************************************************)
RECURSIVE thinning_zs(_, _, _)
thinning_zs(img, w, h) ==
    LET r0 == thinning_zs_iteration(img, 0, 0, w, h, w, h, 0)
    IN  IF r0.diff
        THEN LET im1 == thinning_zs_post(r0.im, 0, 0, w, h, w)
                 r1  == thinning_zs_iteration(im1, 0, 0, w, h, w, h, 1)
                 im2 == thinning_zs_post(r1.im, 0, 0, w, h, w)
             IN  IF r1.diff THEN thinning_zs(im2, w, h) ELSE im2
        ELSE thinning_zs_post(r0.im, 0, 0, w, h, w)

-----------------------------------------------------------------------------
(***************************************************************************)
(* thinning_zs_tiled: the tiled driver, one step per tile visit.           *)
(***************************************************************************)
FLAG_CHANGED == 1

ntx == (width + tile_width - 1) \div tile_width
nty == (height + tile_height - 1) \div tile_height
total_tiles == ntx * nty

\* the window of tile t
TileWin(t) ==
    LET ti_x  == t % ntx
        ti_y  == t \div ntx
        win_x == ti_x * tile_width
        win_y == ti_y * tile_height
    IN  [ x |-> win_x, y |-> win_y,
          w |-> Min(tile_width, width - win_x),
          h |-> Min(tile_height, height - win_y) ]

\* flag & FLAG_CHANGED == 0
FlagClear(flag) == Bit0(flag) = 0

\* flag | FLAG_CHANGED and flag & !FLAG_CHANGED
FlagSet(flag) == IF Bit0(flag) = 1 THEN flag ELSE flag + FLAG_CHANGED
FlagReset(flag) == flag - Bit0(flag)

\* the test of lines 151-155 and 203-207: the tile and its W, N, E, S neighbours
\* are all clear (a || b of the source is IF a THEN TRUE ELSE b)
SkipTile(t) ==
    LET ti_x == t % ntx
        ti_y == t \div ntx
    IN  /\ FlagClear(tile_flags[ti_y * ntx + ti_x])
        /\ (IF ti_x = 0 THEN TRUE ELSE FlagClear(tile_flags[ti_y * ntx + ti_x - 1]))
        /\ (IF ti_y = 0 THEN TRUE ELSE FlagClear(tile_flags[(ti_y - 1) * ntx + ti_x]))
        /\ (IF ti_x = ntx - 1 THEN TRUE ELSE FlagClear(tile_flags[ti_y * ntx + ti_x + 1]))
        /\ (IF ti_y = nty - 1 THEN TRUE ELSE FlagClear(tile_flags[(ti_y + 1) * ntx + ti_x]))

MarkPhases == {"mark0", "mark1"}
CommitPhases == {"commit0", "commit1"}
SubIter == IF pc = "mark0" THEN 0 ELSE 1

\* the call of thinning_zs_iteration a MARK phase makes on tile t
IterOnTile(t) ==
    LET tw == TileWin(t)
    IN  thinning_zs_iteration(im, tw.x, tw.y, tw.w, tw.h, width, height, SubIter)

\* the call of thinning_zs_post a COMMIT phase makes on tile t
PostOnTile(t) ==
    LET tw == TileWin(t)
    IN  thinning_zs_post(im, tw.x, tw.y, tw.w, tw.h, width)

Images(w, h) == [0 .. (w * h - 1) -> {0, 1}]

NoTrace == <<>>

\* entry of thinning_zs_tiled: every tile flagged, the loop at MARK_SUB0
Init ==
    /\ width \in 1 .. MaxW
    /\ height \in 1 .. MaxH
    /\ width * height <= MaxPixels
    /\ tile_width \in 2 .. MaxTile
    /\ tile_height = tile_width
    /\ im \in Images(width, height)
    /\ Cardinality({k \in DOMAIN im : im[k] = 1}) <= MaxFg
    /\ im_in = im
    /\ tile_flags = [t \in 0 .. (total_tiles - 1) |-> FLAG_CHANGED]
    /\ pc = "mark0"
    /\ ti = 0
    /\ diff = FALSE
    /\ call = 1
    /\ im_first = NoTrace
    /\ win = NoTrace
    /\ chunk_size = 0
    /\ max_iter = 0
    /\ frags = NoTrace
    /\ NoMerge

UnchangedInputs ==
    UNCHANGED <<width, height, tile_width, tile_height, im_in, call, im_first,
                win, chunk_size, max_iter, frags, tracerVars>>

\* a MARK phase reaches a tile that passes the skip test: continue
MarkSkip ==
    /\ pc \in MarkPhases
    /\ ti < total_tiles
    /\ SkipTile(ti)
    /\ ti' = ti + 1
    /\ UNCHANGED <<im, tile_flags, pc, diff>>
    /\ UnchangedInputs

\* a MARK phase runs the window iterator on a tile and sets or clears its flag
MarkTile ==
    /\ pc \in MarkPhases
    /\ ti < total_tiles
    /\ ~SkipTile(ti)
    /\ LET r == IterOnTile(ti)
       IN  /\ im' = r.im
           /\ IF r.diff
              THEN /\ tile_flags' = [tile_flags EXCEPT ![ti] = FlagSet(@)]
                   /\ diff' = TRUE
              ELSE /\ tile_flags' = [tile_flags EXCEPT ![ti] = FlagReset(@)]
                   /\ diff' = diff
    /\ ti' = ti + 1
    /\ UNCHANGED pc
    /\ UnchangedInputs

\* the end of a MARK phase: break when nothing changed, else go on to the commit
MarkEnd ==
    /\ pc \in MarkPhases
    /\ ti = total_tiles
    /\ pc' = IF ~diff THEN "done" ELSE IF pc = "mark0" THEN "commit0" ELSE "commit1"
    /\ ti' = IF ~diff THEN ti ELSE 0
    /\ UNCHANGED <<im, tile_flags, diff>>
    /\ UnchangedInputs

\* a COMMIT phase reaches a tile whose flag is clear: continue
CommitSkip ==
    /\ pc \in CommitPhases
    /\ ti < total_tiles
    /\ FlagClear(tile_flags[ti])
    /\ ti' = ti + 1
    /\ UNCHANGED <<im, tile_flags, pc, diff>>
    /\ UnchangedInputs

\* a COMMIT phase runs the post-pass on a flagged tile
CommitTile ==
    /\ pc \in CommitPhases
    /\ ti < total_tiles
    /\ ~FlagClear(tile_flags[ti])
    /\ im' = PostOnTile(ti)
    /\ ti' = ti + 1
    /\ UNCHANGED <<tile_flags, pc, diff>>
    /\ UnchangedInputs

\* the end of a COMMIT phase: on to MARK_SUB1 (diff = false) or round the loop
CommitEnd ==
    /\ pc \in CommitPhases
    /\ ti = total_tiles
    /\ pc' = IF pc = "commit0" THEN "mark1" ELSE "mark0"
    /\ ti' = 0
    /\ diff' = FALSE
    /\ UNCHANGED <<im, tile_flags>>
    /\ UnchangedInputs

Next ==
    \/ MarkSkip
    \/ MarkTile
    \/ MarkEnd
    \/ CommitSkip
    \/ CommitTile
    \/ CommitEnd

Spec == Init /\ [][Next]_vars

-----------------------------------------------------------------------------
(***************************************************************************)
(* The skeleton tracer of src/src/skeleton.rs.  A point [usize; 2] is the  *)
(* pair <<x, y>>: p[1] is the source's p[0] and p[2] its p[1].  A fragment *)
(* is a sequence of points and a fragment list a sequence of fragments;    *)
(* the source's index n is the sequence's index n + 1.                     *)
(***************************************************************************)
HORIZONTAL == 1
VERTICAL == 2

Abs(n) == IF n < 0 THEN -n ELSE n

Reverse(f) == [n \in 1 .. Len(f) |-> f[Len(f) + 1 - n]]

\* check if a region has any white pixel
not_empty(img, ww, x, y, w, h) ==
    \E i \in y .. (y + h - 1) : \E j \in x .. (x + w - 1) : img[i * ww + j] # 0

\* the loop of lines 50-62: the index of the first fragment of c0 whose end is
\* within 1 of the seam and nearest to p1 along the seam, nearer than md; 0 if none
RECURSIVE BestMatch(_, _, _, _, _, _, _, _)
BestMatch(c0, j, b0, p1, sx, isv, mj, md) ==
    IF j > Len(c0) THEN mj
    ELSE LET p0 == c0[j][IF b0 THEN 1 ELSE Len(c0[j])]
             d  == Abs((IF isv THEN p0[1] ELSE p0[2]) - (IF isv THEN p1[1] ELSE p1[2]))
             better == Abs((IF isv THEN p0[2] ELSE p0[1]) - sx) <= 1 /\ d < md
         IN  BestMatch(c0, j + 1, b0, p1, sx, isv,
                       IF better THEN j ELSE mj, IF better THEN d ELSE md)

RemoveAt(c, i) == [n \in 1 .. (Len(c) - 1) |-> IF n < i THEN c[n] ELSE c[n + 1]]

\* lines 64-81: c1[i] joined to c0[mj] (mj = 0: no match)
MergeJoin(c0, c1, i, b0, b1, mj) ==
    IF mj # 0
    THEN [ok |-> TRUE,
          c0 |-> [c0 EXCEPT ![mj] =
                    IF b0 /\ b1 THEN Reverse(c1[i]) \o @
                    ELSE IF ~b0 /\ b1 THEN @ \o c1[i]
                    ELSE IF b0 /\ ~b1 THEN c1[i] \o @
                    ELSE @ \o Reverse(c1[i])],
          c1 |-> RemoveAt(c1, i)]
    ELSE [ok |-> FALSE, c0 |-> c0, c1 |-> c1]

\* lines 44-81, p1 being the end of c1[i] that is matched
MergeEnd(c0, c1, i, sx, isv, b0, b1, p1) ==
    IF Abs((IF isv THEN p1[2] ELSE p1[1]) - sx) > 0
    THEN [ok |-> FALSE, c0 |-> c0, c1 |-> c1]
    ELSE MergeJoin(c0, c1, i, b0, b1, BestMatch(c0, 1, b0, p1, sx, isv, 0, 4))

\* merge ith fragment of second chunk to first chunk: the lists it leaves and
\* the bool it returns
merge_impl(c0, c1, i, sx, isv, mode) ==
    MergeEnd(c0, c1, i, sx, isv, ((mode \div 2) % 2) > 0, (mode % 2) > 0,
             c1[i][IF (mode % 2) > 0 THEN 1 ELSE Len(c1[i])])

\* if merge_impl(..) { continue; }: the next merge_impl is tried on failure
OrElse(r, next) == IF r.ok THEN r ELSE next

\* a mutation of MergeOne: mode 3 is tried before mode 1
MergeOneMode3First(c0, c1, i, sx, dr) ==
    IF dr = HORIZONTAL \/ dr = VERTICAL
    THEN OrElse(merge_impl(c0, c1, i, sx, dr = VERTICAL, 3),
         OrElse(merge_impl(c0, c1, i, sx, dr = VERTICAL, 1),
         OrElse(merge_impl(c0, c1, i, sx, dr = VERTICAL, 0),
                merge_impl(c0, c1, i, sx, dr = VERTICAL, 2))))
    ELSE [ok |-> FALSE, c0 |-> c0, c1 |-> c1]

\* one round of the loop of lines 99-127: the modes 1, 3, 0, 2 in turn on c1[i]
MergeOne(c0, c1, i, sx, dr) ==
    IF dr = HORIZONTAL \/ dr = VERTICAL
    THEN OrElse(merge_impl(c0, c1, i, sx, dr = VERTICAL, 1),
         OrElse(merge_impl(c0, c1, i, sx, dr = VERTICAL, 3),
         OrElse(merge_impl(c0, c1, i, sx, dr = VERTICAL, 0),
                merge_impl(c0, c1, i, sx, dr = VERTICAL, 2))))
    ELSE [ok |-> FALSE, c0 |-> c0, c1 |-> c1]

\* the loop of lines 99-127, i running down from c1.len() - 1 to 0, on the
\* lists r.c0 and r.c1
RECURSIVE MergeLoop(_, _, _, _)
MergeLoop(r, i, sx, dr) ==
    IF i < 1 THEN r
    ELSE MergeLoop(MergeOne(r.c0, r.c1, i, sx, dr), i - 1, sx, dr)

\* a mutation of Drain: what is left of c1 is cleared without being appended
DrainDropsRest(r) == r.c0

\* lines 128-129: what is left of c1 is appended to c0
Drain(r) == r.c0 \o r.c1

\* merge fragments from two chunks: the list c0 it leaves (c1 is left empty)
merge_frags(c0, c1, sx, dr) ==
    IF Len(c0) = 0 THEN c1
    ELSE IF Len(c1) = 0 THEN c0
    ELSE Drain(MergeLoop([ok |-> FALSE, c0 |-> c0, c1 |-> c1], Len(c1), sx, dr))

\* the pixel <<i, j>> the border walk of lines 157-172 is at in round k
BorderPos(k, x, y, w, h) ==
    IF k < w THEN <<y, x + k>>
    ELSE IF k < w + h - 1 THEN <<y + k - w + 1, x + w - 1>>
    ELSE IF k < w + h + w - 2 THEN <<y + h - 1, x + w - (k - w - h + 3)>>
    ELSE <<y + h - (k - w - h - w + 4), x>>

\* a mutation of BorderIsSet: the test of line 176 is inverted
BorderIsClear(img, ww, pos) == img[pos[1] * ww + pos[2]] = 0

\* the test of line 176 at the pixel pos = <<i, j>>
BorderIsSet(img, ww, pos) == img[pos[1] * ww + pos[2]] # 0

\* lines 176-193: one round of the border walk at pos = <<i, j>>, on the
\* walk's state st = [fr, on, li, lj]
WalkStep(img, ww, x, y, w, h, st, pos) ==
    IF BorderIsSet(img, ww, pos)
    THEN IF ~st.on
         THEN [fr |-> Append(st.fr, << <<pos[2], pos[1]>>,
                                       <<x + (w \div 2), y + (h \div 2)>> >>),
               on |-> TRUE, li |-> pos[1], lj |-> pos[2]]
         ELSE [st EXCEPT !.li = pos[1], !.lj = pos[2]]
    ELSE IF st.on
         THEN [fr |-> [st.fr EXCEPT ![Len(st.fr)][1] =
                          << (@[1] + st.lj) \div 2, (@[2] + st.li) \div 2 >>],
               on |-> FALSE, li |-> pos[1], lj |-> pos[2]]
         ELSE [st EXCEPT !.li = pos[1], !.lj = pos[2]]

\* the border walk of lines 157-194 from round k on
RECURSIVE BorderWalk(_, _, _, _, _, _, _, _)
BorderWalk(img, ww, x, y, w, h, k, st) ==
    IF k >= h + h + w + w - 4 THEN st.fr
    ELSE BorderWalk(img, ww, x, y, w, h, k + 1,
                    WalkStep(img, ww, x, y, w, h, st, BorderPos(k, x, y, w, h)))

\* the sum s of lines 206-214 (the third term reads column j - 1 + 1)
BoxSum(img, ww, i, j) ==
      img[i * ww - ww + j - 1] + img[i * ww - ww + j] + img[i * ww - ww + j - 1 + 1]
    + img[i * ww + j - 1]      + img[i * ww + j]      + img[i * ww + j + 1]
    + img[i * ww + ww + j - 1] + img[i * ww + ww + j] + img[i * ww + ww + j + 1]

\* lines 215-226: the brightest blob m = <<ms, mi, mj>> after pixel (i, j) of
\* sum s, (cx, cy) being the centre of the chunk
BrightStep(m, s, i, j, cx, cy) ==
    IF s > m[1] THEN <<s, i, j>>
    ELSE IF s = m[1] /\ Abs(j - cx) + Abs(i - cy) < Abs(m[3] - cx) + Abs(m[2] - cy)
         THEN <<s, i, j>>
         ELSE m

\* the loops of lines 204-228 from pixel n of the chunk's interior on, in
\* row-major order
RECURSIVE Brightest(_, _, _, _, _, _, _, _)
Brightest(img, ww, x, y, w, h, n, m) ==
    IF n >= (h - 2) * (w - 2) THEN m
    ELSE Brightest(img, ww, x, y, w, h, n + 1,
                   BrightStep(m,
                              BoxSum(img, ww, y + 1 + (n \div (w - 2)), x + 1 + (n % (w - 2))),
                              y + 1 + (n \div (w - 2)), x + 1 + (n % (w - 2)),
                              x + (w \div 2), y + (h \div 2)))

\* lines 229-234: every fragment's inner end moved to the blob m = <<ms, mi, mj>>
Recentre(fr, m) ==
    IF m[2] # -1
    THEN [n \in 1 .. Len(fr) |-> <<fr[n][1], <<m[3], m[2]>> >>]
    ELSE fr

\* lines 195-236 on the fragments fr of the border walk
Collapse(img, ww, x, y, w, h, fr) ==
    IF Len(fr) = 2 THEN << <<fr[1][1], fr[2][1]>> >>
    ELSE IF Len(fr) > 2
         THEN Recentre(fr, IF h > 2 /\ w > 2
                           THEN Brightest(img, ww, x, y, w, h, 0, <<0, -1, -1>>)
                           ELSE <<0, -1, -1>>)
         ELSE fr

\* recursive bottom: turn chunk into polyline fragments
chunk_to_frags(img, ww, x, y, w, h) ==
    Collapse(img, ww, x, y, w, h,
             BorderWalk(img, ww, x, y, w, h, 0,
                        [fr |-> <<>>, on |-> FALSE, li |-> 0, lj |-> 0]))

\* the sum of img over the indices first, first + step, ... (count of them)
RECURSIVE SumLine(_, _, _, _)
SumLine(img, first, step, count) ==
    IF count = 0 THEN 0 ELSE img[first] + SumLine(img, first + step, step, count - 1)

\* lines 290-300: the best seam m = [ms, mi, mj] after row i of sum s
RowPick(m, s, i, cy) ==
    IF s < m.ms THEN [ms |-> s, mi |-> i, mj |-> m.mj]
    ELSE IF s = m.ms /\ Abs(i - cy) < Abs(m.mi - cy) THEN [ms |-> s, mi |-> i, mj |-> m.mj]
    ELSE m

\* the loop of lines 277-301 from row i on
RECURSIVE RowSeam(_, _, _, _, _, _, _, _)
RowSeam(img, ww, x, y, w, h, i, m) ==
    IF i >= y + h - 3 THEN m
    ELSE RowSeam(img, ww, x, y, w, h, i + 1,
            IF \/ img[i * ww + x] > 0
               \/ img[(i - 1) * ww + x] > 0
               \/ img[i * ww + x + w - 1] > 0
               \/ img[(i - 1) * ww + x + w - 1] > 0
            THEN m
            ELSE RowPick(m, SumLine(img, i * ww + x, 1, w) + SumLine(img, (i - 1) * ww + x, 1, w),
                         i, y + (h \div 2)))

\* lines 317-327: the best seam m = [ms, mi, mj] after column j of sum s
ColPick(m, s, j, cx) ==
    IF s < m.ms THEN [ms |-> s, mi |-> -1, mj |-> j]
    ELSE IF s = m.ms /\ Abs(j - cx) < Abs(m.mj - cx) THEN [ms |-> s, mi |-> -1, mj |-> j]
    ELSE m

\* the loop of lines 304-328 from column j on
RECURSIVE ColSeam(_, _, _, _, _, _, _, _)
ColSeam(img, ww, x, y, w, h, j, m) ==
    IF j >= x + w - 3 THEN m
    ELSE ColSeam(img, ww, x, y, w, h, j + 1,
            IF \/ img[ww * y + j] > 0
               \/ img[ww * (y + h) - ww + j] > 0
               \/ img[ww * y + j - 1] > 0
               \/ img[ww * (y + h) - ww + j - 1] > 0
            THEN m
            ELSE ColPick(m, SumLine(img, y * ww + j, ww, h) + SumLine(img, y * ww + j - 1, ww, h),
                         j, x + (w \div 2)))

\* a mutation of BestSeam: the two loops start at y + 2 and x + 2
BestSeamFromTwo(img, ww, hh, x, y, w, h, chunk) ==
    ColSeam(img, ww, x, y, w, h, IF w > chunk THEN x + 2 ELSE x + w,
            RowSeam(img, ww, x, y, w, h, IF h > chunk THEN y + 2 ELSE y + h,
                    [ms |-> ww + hh, mi |-> -1, mj |-> -1]))

\* lines 273-329: the best seam [ms, mi, mj] of the chunk
BestSeam(img, ww, hh, x, y, w, h, chunk) ==
    ColSeam(img, ww, x, y, w, h, IF w > chunk THEN x + 3 ELSE x + w,
            RowSeam(img, ww, x, y, w, h, IF h > chunk THEN y + 3 ELSE y + h,
                    [ms |-> ww + hh, mi |-> -1, mj |-> -1]))

\* lines 330-359: the split the seam m gives, [dr, sx, l, r] with the children
\* l and r as <<x, y, w, h>> (dr = 0: no split, l0 and r0 left at usize::MAX)
Split(x, y, w, h, chunk, m) ==
    IF h > chunk /\ m.mi # -1
    THEN [dr |-> VERTICAL, sx |-> m.mi,
          l |-> <<x, y, w, m.mi - y>>, r |-> <<x, m.mi, w, y + h - m.mi>>]
    ELSE IF w > chunk /\ m.mj # -1
         THEN [dr |-> HORIZONTAL, sx |-> m.mj,
               l |-> <<x, y, m.mj - x, h>>, r |-> <<m.mj, y, x + w - m.mj, h>>]
         ELSE [dr |-> 0, sx |-> 0, l |-> <<>>, r |-> <<>>]

RECURSIVE trace_skeleton(_, _, _, _, _, _, _, _, _)

\* lines 361-378: the fragments of child c merged into fr
MergeChild(img, ww, hh, chunk, iter, sp, c, fr) ==
    IF sp.dr # 0 /\ not_empty(img, ww, c[1], c[2], c[3], c[4])
    THEN merge_frags(fr, trace_skeleton(img, ww, hh, c[1], c[2], c[3], c[4], chunk, iter - 1),
                     sp.sx, sp.dr)
    ELSE fr

\* lines 360-383 for the seam m and the split sp it gives
TraceSplit(img, ww, hh, x, y, w, h, chunk, iter, m, sp) ==
    IF m.mi = -1 /\ m.mj = -1
    THEN chunk_to_frags(img, ww, x, y, w, h)
    ELSE MergeChild(img, ww, hh, chunk, iter, sp, sp.r,
                    MergeChild(img, ww, hh, chunk, iter, sp, sp.l, <<>>))

\* lines 273-383 for the seam m
TraceSeam(img, ww, hh, x, y, w, h, chunk, iter, m) ==
    TraceSplit(img, ww, hh, x, y, w, h, chunk, iter, m, Split(x, y, w, h, chunk, m))

\* Trace skeleton from thinning result
trace_skeleton(img, ww, hh, x, y, w, h, chunk, iter) ==
    IF iter <= 0 THEN <<>>
    ELSE IF w <= chunk /\ h <= chunk THEN chunk_to_frags(img, ww, x, y, w, h)
    ELSE TraceSeam(img, ww, hh, x, y, w, h, chunk, iter,
                   BestSeam(img, ww, hh, x, y, w, h, chunk))

-----------------------------------------------------------------------------
(***************************************************************************)
(* Two calls of thinning_zs_tiled in a row on the same buffer.             *)
(***************************************************************************)
\* the caller calls thinning_zs_tiled again on the buffer the first call left,
\* with the same dimensions and tile size: entry as in Init (lines 134-142)
CallAgain ==
    /\ pc = "done"
    /\ call = 1
    /\ call' = 2
    /\ im_first' = im
    /\ tile_flags' = [t \in 0 .. (total_tiles - 1) |-> FLAG_CHANGED]
    /\ pc' = "mark0"
    /\ ti' = 0
    /\ diff' = FALSE
    /\ UNCHANGED <<im, width, height, tile_width, tile_height, im_in,
                   win, chunk_size, max_iter, frags, tracerVars>>

NextTwice ==
    \/ Next
    \/ CallAgain

SpecTwice == Init /\ [][NextTwice]_vars

-----------------------------------------------------------------------------
(***************************************************************************)
(* Direct calls of trace_skeleton and of thinning_zs_post.                 *)
(***************************************************************************)
\* max_iter as main.rs passes it
LargeIter == 999

\* the regions <<x, y, w, h>> inside a w0 x h0 image
Regions(w0, h0) ==
    { <<x, y, w, h>> : x \in 0 .. (w0 - 1), y \in 0 .. (h0 - 1), w \in 1 .. w0, h \in 1 .. h0 }

NoDriver ==
    /\ tile_width = 0
    /\ tile_height = 0
    /\ tile_flags = NoTrace
    /\ ti = 0
    /\ diff = FALSE
    /\ call = 0
    /\ im_first = NoTrace

UnchangedDriver ==
    UNCHANGED <<tile_width, tile_height, tile_flags, ti, diff, call, im_first>>

\* a caller about to trace a region of a {0,1} image
InitTrace ==
    /\ width = TraceW
    /\ height = TraceH
    /\ im \in Images(width, height)
    /\ Cardinality({k \in DOMAIN im : im[k] = 1}) <= TraceMaxFg
    /\ im_in = im
    /\ win \in Regions(width, height)
    /\ win[1] + win[3] <= width
    /\ win[2] + win[4] <= height
    /\ chunk_size \in 3 .. MaxChunk
    /\ max_iter \in {1, LargeIter}
    /\ frags = NoTrace
    /\ pc = "trace"
    /\ NoDriver
    /\ NoMerge

\* the call trace_skeleton(im, width, height, x, y, w, h, chunk_size, max_iter)
TraceCall ==
    /\ pc = "trace"
    /\ frags' = trace_skeleton(im, width, height, win[1], win[2], win[3], win[4],
                               chunk_size, max_iter)
    /\ pc' = "traced"
    /\ UNCHANGED <<im, width, height, im_in, win, chunk_size, max_iter>>
    /\ UNCHANGED tracerVars
    /\ UnchangedDriver

NextTrace == TraceCall

SpecTrace == InitTrace /\ [][NextTrace]_vars

\* a caller about to commit a window of a buffer of bytes 0..3
InitPost ==
    /\ width \in 1 .. PostW
    /\ height \in 1 .. PostH
    /\ im \in [0 .. (width * height - 1) -> 0 .. 3]
    /\ im_in = im
    /\ win \in Regions(width, height)
    /\ win[1] + win[3] <= width
    /\ win[2] + win[4] <= height
    /\ chunk_size = 0
    /\ max_iter = 0
    /\ frags = NoTrace
    /\ pc = "post"
    /\ NoDriver
    /\ NoMerge

\* the call thinning_zs_post(im, win_x, win_y, win_w, win_h, width)
PostCall ==
    /\ pc = "post"
    /\ im' = thinning_zs_post(im, win[1], win[2], win[3], win[4], width)
    /\ pc' = "posted"
    /\ UNCHANGED <<width, height, im_in, win, chunk_size, max_iter, frags>>
    /\ UNCHANGED tracerVars
    /\ UnchangedDriver

NextPost == PostCall

SpecPost == InitPost /\ [][NextPost]_vars

-----------------------------------------------------------------------------
(***************************************************************************)
(* The tree of calls of trace_skeleton, one step per call.  calls holds    *)
(* the calls that are still to be made, [x, y, w, h, iter] each, the next  *)
(* one first: the left child of a split is traced before the right one.    *)
(***************************************************************************)
\* the {0,1} images of n pixels whose foreground is the set F
ImageOf(n, F) == [k \in 0 .. (n - 1) |-> IF k \in F THEN 1 ELSE 0]

\* a caller about to trace the whole of a {0,1} image
InitSplit ==
    /\ width \in 1 .. SplitW
    /\ height \in 1 .. SplitH
    /\ \E a, b \in 0 .. (width * height - 1), n \in 0 .. SplitMaxFg :
          im = ImageOf(width * height, IF n = 0 THEN {} ELSE IF n = 1 THEN {a} ELSE {a, b})
    /\ im_in = im
    /\ win = <<0, 0, width, height>>
    /\ chunk_size \in 3 .. MaxChunk
    /\ max_iter \in {1, LargeIter}
    /\ calls = << [x |-> 0, y |-> 0, w |-> width, h |-> height, iter |-> max_iter] >>
    /\ frags = NoTrace
    /\ pc = "split"
    /\ mc0 = <<>>
    /\ mc1 = <<>>
    /\ seam = <<>>
    /\ mi = 0
    /\ merged = 0
    /\ mc_in = <<>>
    /\ NoDriver

\* the seam the call c finds (lines 273-329)
SeamOfCall(c) == BestSeam(im, width, height, c.x, c.y, c.w, c.h, chunk_size)

\* the split the call c makes (lines 330-359)
SplitOfCall(c) == Split(c.x, c.y, c.w, c.h, chunk_size, SeamOfCall(c))

\* lines 361 and 370: the recursive call on child r = <<x, y, w, h>> of call
\* c, made only if the child has a foreground pixel
ChildCall(c, r) ==
    IF not_empty(im, width, r[1], r[2], r[3], r[4])
    THEN << [x |-> r[1], y |-> r[2], w |-> r[3], h |-> r[4], iter |-> c.iter - 1] >>
    ELSE <<>>

\* the call is over when no call is left to be made
AfterCalls(rest) ==
    /\ calls' = rest
    /\ pc' = IF Len(rest) = 0 THEN "traced" ELSE "split"
    /\ UNCHANGED <<im, im_in, width, height, win, chunk_size, max_iter, frags>>
    /\ UNCHANGED <<mc0, mc1, seam, mi, merged, mc_in>>
    /\ UnchangedDriver

\* lines 266-269: max_iter <= 0, the call returns no fragment
SplitCap ==
    /\ pc = "split"
    /\ Head(calls).iter <= 0
    /\ AfterCalls(Tail(calls))

\* lines 270-272: the chunk is small enough, the call returns chunk_to_frags
SplitLeaf ==
    /\ pc = "split"
    /\ Head(calls).iter > 0
    /\ Head(calls).w <= chunk_size /\ Head(calls).h <= chunk_size
    /\ AfterCalls(Tail(calls))

\* lines 273-382 with mi == -1 && mj == -1: no seam, the call returns
\* chunk_to_frags on the whole chunk
SplitNoSeam ==
    /\ pc = "split"
    /\ Head(calls).iter > 0
    /\ ~(Head(calls).w <= chunk_size /\ Head(calls).h <= chunk_size)
    /\ SeamOfCall(Head(calls)).mi = -1 /\ SeamOfCall(Head(calls)).mj = -1
    /\ AfterCalls(Tail(calls))

\* lines 273-383 with a seam: the call recurses on the children that have
\* foreground, the left one first
SplitSeam ==
    /\ pc = "split"
    /\ Head(calls).iter > 0
    /\ ~(Head(calls).w <= chunk_size /\ Head(calls).h <= chunk_size)
    /\ ~(SeamOfCall(Head(calls)).mi = -1 /\ SeamOfCall(Head(calls)).mj = -1)
    /\ AfterCalls(ChildCall(Head(calls), SplitOfCall(Head(calls)).l)
                    \o ChildCall(Head(calls), SplitOfCall(Head(calls)).r)
                    \o Tail(calls))

NextSplit ==
    \/ SplitCap
    \/ SplitLeaf
    \/ SplitNoSeam
    \/ SplitSeam

SpecSplit == InitSplit /\ [][NextSplit]_vars

-----------------------------------------------------------------------------
(***************************************************************************)
(* A direct call of merge_frags, one step per round of its loop.           *)
(***************************************************************************)
\* end points of fragments when the seam coordinate is x (dr = HORIZONTAL)
SeamPoints == { <<2, 0>>, <<2, 3>>, <<3, 1>>, <<0, 0>>, <<2, 6>> }

\* the end points for direction d: transposed when the seam coordinate is y
PointsFor(d) ==
    IF d = HORIZONTAL THEN SeamPoints ELSE { <<p[2], p[1]>> : p \in SeamPoints }

\* the lists of at most n fragments of two points of P
FragLists(P, n) == UNION { [1 .. k -> (P \X P)] : k \in 0 .. n }

\* a caller about to merge two fragment lists along a seam
InitMerge ==
    /\ seam \in [sx : 2 .. MaxSeam, dr : {HORIZONTAL, VERTICAL}]
    /\ mc0 \in FragLists(PointsFor(seam.dr), MaxFrags)
    /\ mc1 \in FragLists(PointsFor(seam.dr), MaxFrags - Len(mc0))
    /\ mc_in = [c0 |-> mc0, c1 |-> mc1]
    /\ mi = 0
    /\ merged = 0
    /\ calls = <<>>
    /\ pc = "merge"
    /\ im = NoTrace
    /\ im_in = NoTrace
    /\ width = 0
    /\ height = 0
    /\ win = NoTrace
    /\ chunk_size = 0
    /\ max_iter = 0
    /\ frags = NoTrace
    /\ NoDriver

UnchangedImage ==
    UNCHANGED <<im, im_in, width, height, win, chunk_size, max_iter, frags>>

\* lines 91-98: the early returns, or entry into the loop at i = c1.len() - 1
MergeEntry ==
    /\ pc = "merge"
    /\ IF Len(mc0) = 0
       THEN /\ mc0' = mc1
            /\ mc1' = <<>>
            /\ pc' = "merged"
            /\ mi' = 0
       ELSE IF Len(mc1) = 0
            THEN /\ pc' = "merged"
                 /\ UNCHANGED <<mc0, mc1, mi>>
            ELSE /\ pc' = "merging"
                 /\ mi' = Len(mc1)
                 /\ UNCHANGED <<mc0, mc1>>
    /\ UNCHANGED <<seam, merged, mc_in, calls>>
    /\ UnchangedImage
    /\ UnchangedDriver

\* lines 99-127: one round of the loop, on c1[i]
MergeRound ==
    /\ pc = "merging"
    /\ mi >= 1
    /\ LET r == MergeOne(mc0, mc1, mi, seam.sx, seam.dr)
       IN  /\ mc0' = r.c0
           /\ mc1' = r.c1
           /\ merged' = IF r.ok THEN merged + 1 ELSE merged
    /\ mi' = mi - 1
    /\ UNCHANGED <<pc, seam, mc_in, calls>>
    /\ UnchangedImage
    /\ UnchangedDriver

\* lines 128-130: the loop is over, what is left of c1 is moved to c0
MergeDrain ==
    /\ pc = "merging"
    /\ mi = 0
    /\ mc0' = Drain([c0 |-> mc0, c1 |-> mc1])
    /\ mc1' = <<>>
    /\ pc' = "merged"
    /\ UNCHANGED <<mi, seam, merged, mc_in, calls>>
    /\ UnchangedImage
    /\ UnchangedDriver

NextMerge ==
    \/ MergeEntry
    \/ MergeRound
    \/ MergeDrain

SpecMerge == InitMerge /\ [][NextMerge]_vars

-----------------------------------------------------------------------------
(***************************************************************************)
(* Notions the properties are stated with.                                 *)
(***************************************************************************)
Returned == pc = "done"

\* the interior pixels of the image: 1 <= i < h - 1 and 1 <= j < w - 1
Interior == { k \in DOMAIN im :
                /\ (k \div width) \in 1 .. (height - 2)
                /\ (k % width) \in 1 .. (width - 2) }

\* the foreground of an image: the pixels with bit 0 set
Foreground(img) == { k \in DOMAIN img : Bit0(img[k]) = 1 }

\* 8-adjacency of two pixel indices in an image of width w
Adjacent(k1, k2, w) ==
    LET di == (k1 \div w) - (k2 \div w)
        dj == (k1 % w) - (k2 % w)
    IN  k1 # k2 /\ di \in -1 .. 1 /\ dj \in -1 .. 1

\* the pixels of F connected to S
RECURSIVE Closure(_, _, _)
Closure(S, F, w) ==
    LET more == { k \in F \ S : \E s \in S : Adjacent(k, s, w) }
    IN  IF more = {} THEN S ELSE Closure(S \cup more, F, w)

\* the number of 8-connected components of the pixel set F
RECURSIVE Components(_, _)
Components(F, w) ==
    IF F = {} THEN 0
    ELSE LET first == CHOOSE k \in F : \A m \in F : k <= m
         IN  1 + Components(F \ Closure({first}, F, w), w)

\* a pixel the Zhang-Suen rules of sub-iteration iter would remove
Reducible(img, k, w, iter) ==
    /\ Bit0(img[k]) = 1
    /\ ZsCondition(img, k \div w, k % w, w, iter)

-----------------------------------------------------------------------------
(***************************************************************************)
(* The claims.                                                             *)
(***************************************************************************)

\* C1: when thinning_zs_tiled returns, every byte of the buffer is 0 or 1.
C1_BytesBinaryOnReturn ==
    Returned => \A k \in DOMAIN im : im[k] \in {0, 1}

\* C2: for tile_w >= 3 and tile_h >= 3 the buffer thinning_zs_tiled leaves is
\* byte for byte the buffer the non-tiled thinning_zs leaves on the same input.
C2_TiledEqualsReference ==
    (Returned /\ tile_width >= 3 /\ tile_height >= 3)
        => im = thinning_zs(im_in, width, height)

\* C3: a second call of thinning_zs_tiled on the output of a first call changes
\* no byte of the buffer.
C3_SecondCallChangesNothing ==
    (Returned /\ call = 2) => im = im_first

\* C4: when thinning_zs_tiled returns, no interior foreground pixel satisfies
\* the removal rules of sub-iteration 0 or of sub-iteration 1.
C4_NoReduciblePixelOnReturn ==
    Returned => \A k \in Interior :
                    /\ ~Reducible(im, k, width, 0)
                    /\ ~Reducible(im, k, width, 1)

\* C5 as claimed: thinning_zs_tiled leaves the number of 8-connected components
\* of the foreground equal to the number in the input.
C5_ComponentCountPreserved ==
    Returned => Components(Foreground(im), width) = Components(Foreground(im_in), width)

\* C5 as amended: thinning_zs_tiled never increases the number of 8-connected
\* components of the foreground (a component may vanish, none is split).
C5_ComponentCountNotIncreased ==
    Returned => Components(Foreground(im), width) <= Components(Foreground(im_in), width)

\* a return after pixels were removed from an image of two or more components
C5_Witness ==
    /\ Returned
    /\ Foreground(im) # Foreground(im_in)
    /\ Components(Foreground(im_in), width) >= 2
    /\ Components(Foreground(im), width) = Components(Foreground(im_in), width)

\* the weight of a byte: marking (1 -> 3, 0 -> 2) and committing (3 -> 0) lower it
Weight(byte) ==
    CASE byte = 1 -> 3
      [] byte = 3 -> 2
      [] byte = 0 -> 1
      [] OTHER    -> 0

RECURSIVE SumWeights(_, _)
SumWeights(img, n) == IF n = 0 THEN 0 ELSE Weight(img[n - 1]) + SumWeights(img, n - 1)

\* a natural number that bounds the steps thinning_zs_tiled has left
Measure ==
    LET potential == SumWeights(im, width * height)
                        + (IF pc \in MarkPhases /\ diff THEN 1 ELSE 0)
        rank == IF pc = "done" THEN 0
                ELSE IF pc \in MarkPhases THEN 1 + (total_tiles - ti)
                ELSE total_tiles + 2 + (total_tiles - ti)
    IN  potential * (2 * total_tiles + 4) + rank

\* the loop is inside a MARK or COMMIT phase, at a tile or at the phase's end:
\* one of MarkSkip, MarkTile, MarkEnd, CommitSkip, CommitTile, CommitEnd can step
Running ==
    /\ pc \in MarkPhases \cup CommitPhases
    /\ ti \in 0 .. total_tiles

\* what C6 asks of every step of thinning_zs_tiled
C6_Step ==
    /\ Measure' < Measure
    /\ ~Returned' => Running'
    /\ Returned' => (pc \in MarkPhases /\ ti = total_tiles /\ ~diff)
    /\ (pc \in MarkPhases /\ ti = total_tiles /\ ~diff) => (Returned' /\ im' = im)

\* C6: thinning_zs_tiled terminates (every step of the loop lowers Measure, a
\* natural number, and leaves the loop either returned or able to step); it
\* returns only at the end of a MARK phase in which no tile reported a change,
\* and it returns at the first such phase, without a further commit.
C6_Terminates == [][C6_Step]_vars

\* a return after at least one full round of the loop
C6_Witness ==
    Returned /\ Foreground(im) # Foreground(im_in)

\* what C8 asks of every step of a MARK phase
C8_Step ==
    pc \in MarkPhases =>
        \A k \in DOMAIN im :
            (~HasBit1(im[k]) /\ HasBit1(im'[k])) => Reducible(im, k, width, SubIter)

\* C8: a call of thinning_zs_iteration sets the marker of a pixel only if the
\* pixel is foreground and passes the test of the sub-iteration.
C8_MarksOnlyReducibleForeground == [][C8_Step]_vars

\* C10: whenever a MARK phase skips a tile, the window iterator of that
\* sub-iteration would have set no marker on the tile.
C10_SkipLosesNoMark ==
    (pc \in MarkPhases /\ ti < total_tiles /\ SkipTile(ti)) => ~IterOnTile(ti).diff

\* the pixels of the region win
InWin == { k \in DOMAIN im :
             /\ (k \div width) \in win[2] .. (win[2] + win[4] - 1)
             /\ (k % width) \in win[1] .. (win[1] + win[3] - 1) }

\* C7 as claimed: with chunk_size >= 3 and max_iter never reaching the cap,
\* trace_skeleton returns no fragment if and only if the region has no
\* foreground pixel.
C7_EmptyIffNoForeground ==
    (pc = "traced" /\ max_iter >= win[3] + win[4])
        => (Len(frags) = 0 <=> \A k \in InWin : im[k] = 0)

\* C7 as amended: trace_skeleton returns no fragment for a region that has no
\* foreground pixel (a region with foreground may still give no fragment).
C7_NoForegroundGivesEmpty ==
    (pc = "traced" /\ \A k \in InWin : im[k] = 0) => Len(frags) = 0

\* a trace that split an image that has foreground outside the empty region
C7_Witness ==
    /\ pc = "traced"
    /\ max_iter = LargeIter
    /\ win[3] > chunk_size
    /\ \A k \in InWin : im[k] = 0
    /\ \E k \in DOMAIN im : im[k] # 0
    /\ Len(frags) = 0

\* C9: after thinning_zs_post every byte of the window is 0 or 1, with the
\* marker bit clear, and the bytes outside the window are unchanged.
C9_PostLeavesBinary ==
    pc = "posted" =>
        /\ \A k \in InWin : im[k] \in {0, 1}
        /\ \A k \in DOMAIN im \ InWin : im[k] = im_in[k]
\* the end of fragment f a mode looks at: its first point or its last
EndOf(f, first) == f[IF first THEN 1 ELSE Len(f)]

\* the coordinate of point p that is compared with the seam (x for
\* HORIZONTAL, y for VERTICAL), and the other one
AcrossSeam(p) == IF seam.dr = VERTICAL THEN p[2] ELSE p[1]
AlongSeam(p) == IF seam.dr = VERTICAL THEN p[1] ELSE p[2]

\* the fragments c0[j] that c1[i] may be joined to under the table entry t:
\* c1[i]'s end is on the seam, c0[j]'s end is within 1 of the seam and less
\* than 4 away from c1[i]'s end along the seam
Matching(t) ==
    LET p1 == EndOf(mc1[mi], t.c1first)
    IN  { j \in 1 .. Len(mc0) :
            /\ AcrossSeam(p1) = seam.sx
            /\ Abs(AcrossSeam(EndOf(mc0[j], t.c0first)) - seam.sx) <= 1
            /\ Abs(AlongSeam(EndOf(mc0[j], t.c0first)) - AlongSeam(p1)) < 4 }

\* c0[j] after c1[i] was joined to it under the table entry t
Joined(t, j) ==
    LET piece == IF t.reverse THEN Reverse(mc1[mi]) ELSE mc1[mi]
    IN  IF t.prepend THEN piece \o mc0[j] ELSE mc0[j] \o piece

\* a round of the loop joined c1[i] to some matching c0[j] under entry t
RoundUsed(t) ==
    /\ mc1' = RemoveAt(mc1, mi)
    /\ \E j \in Matching(t) : mc0' = [mc0 EXCEPT ![j] = Joined(t, j)]

\* a round of the loop of merge_frags follows the table T of the four modes,
\* tried in the order 1, 3, 0, 2
RoundFollows(T) ==
    (pc = "merging" /\ mi >= 1) =>
        IF Matching(T[1]) # {} THEN RoundUsed(T[1])
        ELSE IF Matching(T[3]) # {} THEN RoundUsed(T[3])
        ELSE IF Matching(T[0]) # {} THEN RoundUsed(T[0])
        ELSE IF Matching(T[2]) # {} THEN RoundUsed(T[2])
        ELSE mc0' = mc0 /\ mc1' = mc1

\* the table of the four modes as the claim gives it
TableClaimed ==
    [m \in 0 .. 3 |->
        CASE m = 1 -> [c0first |-> FALSE, c1first |-> TRUE,  reverse |-> FALSE, prepend |-> FALSE]
          [] m = 3 -> [c0first |-> FALSE, c1first |-> FALSE, reverse |-> TRUE,  prepend |-> FALSE]
          [] m = 0 -> [c0first |-> TRUE,  c1first |-> TRUE,  reverse |-> FALSE, prepend |-> TRUE]
          [] m = 2 -> [c0first |-> TRUE,  c1first |-> FALSE, reverse |-> TRUE,  prepend |-> TRUE]]

\* the table with modes 3 and 0 exchanged and the two reversals moved: a
\* fragment is reversed exactly when the two matched ends are both first
\* points or both last points
TableAmended ==
    [m \in 0 .. 3 |->
        CASE m = 1 -> [c0first |-> FALSE, c1first |-> TRUE,  reverse |-> FALSE, prepend |-> FALSE]
          [] m = 3 -> [c0first |-> TRUE,  c1first |-> TRUE,  reverse |-> TRUE,  prepend |-> TRUE]
          [] m = 0 -> [c0first |-> FALSE, c1first |-> FALSE, reverse |-> TRUE,  prepend |-> FALSE]
          [] m = 2 -> [c0first |-> TRUE,  c1first |-> FALSE, reverse |-> FALSE, prepend |-> TRUE]]

RECURSIVE Flatten(_)
Flatten(c) == IF Len(c) = 0 THEN <<>> ELSE Head(c) \o Flatten(Tail(c))

\* how often point p occurs in the fragments of list c
Occurrences(c, p) == Cardinality({ n \in DOMAIN Flatten(c) : Flatten(c)[n] = p })

\* C12: when merge_frags returns, c1 is empty, every point occurs in c0 as
\* often as it occurred in c0 and c1 together before the call, and c0 has
\* |c0| + |c1| fragments less the number of successful merges.
C12_PointsConserved ==
    pc = "merged" =>
        /\ mc1 = <<>>
        /\ \A p \in PointsFor(seam.dr) :
              Occurrences(mc0, p) = Occurrences(mc_in.c0, p) + Occurrences(mc_in.c1, p)
        /\ \A n \in DOMAIN Flatten(mc0) : Flatten(mc0)[n] \in PointsFor(seam.dr)
        /\ Len(mc0) = Len(mc_in.c0) + Len(mc_in.c1) - merged

\* a call that merged one fragment of c1 and appended another verbatim
C12_Witness ==
    /\ pc = "merged"
    /\ merged = 1
    /\ Len(mc_in.c0) = 1
    /\ Len(mc_in.c1) = 2
    /\ Len(mc0) = 2
\* the pixels <<i, j>> of the rectangle r = <<x, y, w, h>>
RectPixels(r) ==
    { <<i, j>> : i \in r[2] .. (r[2] + r[4] - 1), j \in r[1] .. (r[1] + r[3] - 1) }

CallRect(c) == <<c.x, c.y, c.w, c.h>>

\* the call c gets past the two base cases and selects a seam
SeamSelected(c) ==
    /\ c.iter > 0
    /\ ~(c.w <= chunk_size /\ c.h <= chunk_size)
    /\ (SeamOfCall(c).mi # -1 \/ SeamOfCall(c).mj # -1)

\* the children l and r of the split sp of the rectangle parent are disjoint,
\* cover the parent, are strictly smaller than it and are at least 3 pixels
\* long along the split axis
GoodSplit(parent, sp) ==
    /\ sp.dr \in {HORIZONTAL, VERTICAL}
    /\ RectPixels(sp.l) \cap RectPixels(sp.r) = {}
    /\ RectPixels(sp.l) \cup RectPixels(sp.r) = RectPixels(parent)
    /\ Cardinality(RectPixels(sp.l)) < Cardinality(RectPixels(parent))
    /\ Cardinality(RectPixels(sp.r)) < Cardinality(RectPixels(parent))
    /\ IF sp.dr = VERTICAL
       THEN sp.l[4] >= 3 /\ sp.r[4] >= 3 /\ sp.l[3] = parent[3] /\ sp.r[3] = parent[3]
       ELSE sp.l[3] >= 3 /\ sp.r[3] >= 3 /\ sp.l[4] = parent[4] /\ sp.r[4] = parent[4]

\* a natural number that bounds the calls trace_skeleton has left to make,
\* whatever max_iter is: 2 * w * h - 1 for every pending call
RECURSIVE CallsLeft(_)
CallsLeft(cs) ==
    IF Len(cs) = 0 THEN 0
    ELSE 2 * Head(cs).w * Head(cs).h - 1 + CallsLeft(Tail(cs))

\* what C13 asks of every call of trace_skeleton
C13_Step ==
    pc = "split" =>
        /\ CallsLeft(calls') < CallsLeft(calls)
        /\ IF SeamSelected(Head(calls))
           THEN /\ GoodSplit(CallRect(Head(calls)), SplitOfCall(Head(calls)))
                /\ \E made \in SUBSET {1, 2} :
                      /\ Len(calls') = Cardinality(made) + Len(calls) - 1
                      /\ \A n \in 1 .. Cardinality(made) :
                            /\ CallRect(calls'[n]) \in { SplitOfCall(Head(calls)).l,
                                                         SplitOfCall(Head(calls)).r }
                            /\ calls'[n].iter = Head(calls).iter - 1
                      /\ \A n \in 1 .. (Len(calls) - 1) :
                            calls'[Cardinality(made) + n] = calls[n + 1]
           ELSE calls' = Tail(calls)

\* C13: every split trace_skeleton makes has disjoint children that cover the
\* parent, are strictly smaller than it and are at least 3 pixels long along
\* the split axis, and the only calls it makes are on these children; without
\* a seam the call returns without recursing; every call lowers CallsLeft, a
\* natural number that does not depend on max_iter, so trace_skeleton
\* terminates.
C13_SplitsMakeProgress == [][C13_Step]_vars

\* a split along a row seam whose two children both have foreground, reached
\* with max_iter far from the cap
C13_Witness ==
    /\ pc = "split"
    /\ max_iter = LargeIter
    /\ Len(calls) = 2
    /\ calls[1].iter = LargeIter - 1
    /\ calls[1].x = calls[2].x
    /\ calls[1].w = calls[2].w
    /\ calls[2].y = calls[1].y + calls[1].h
=============================================================================
